---- MODULE Spec2Model ----
(***************************************************************************)
(* Model of main.py: FileProcessor (format dispatch, CSV and XML readers,  *)
(* duplicate detection, per-city floor counting) driven by the input loop  *)
(* of Application.run.                                                     *)
(*                                                                         *)
(* Python strings are sequences of one-character strings, so that strip,   *)
(* lower, endswith, isdigit, int and the ordering used by sorted are       *)
(* computed character by character.  A dict is the sequence of its         *)
(* <<key, value>> pairs in insertion order, keys unique.                   *)
(***************************************************************************)
EXTENDS Integers, Sequences, FiniteSets, TLC

----------------------------------------------------------------------------
(* Bounds of the model *)

\* largest number of child elements under the root of an XML file
MaxItems == 3
\* largest number of data rows after the header of a CSV file
MaxRows == 2

VARIABLES
    files,        \* the file system: path -> File
    pc,           \* where Application.run is: "input", "try" (before
                  \* read_file), "process", "display", "done", "crashed"
    file_path,    \* the local file_path of run: the stripped input line
    processor,    \* the local processor of run: the last FileProcessor made
    result,       \* the locals duplicates and city_summary of run
    err,          \* the exception caught in this iteration, NoErr if none
    opened,       \* the paths opened in this iteration
    shown,        \* per path, the statistics displayed for it the first time
    failedSince   \* the paths displayed, with a failed request after

vars == <<files, pc, file_path, processor, result, err, opened, shown,
          failedSince>>

----------------------------------------------------------------------------
(* Python values *)

\* None: a value that is no string (no string holds the element "None")
None == <<"None">>

\* the characters of the model in code point order, as str comparison uses
CodePoints ==
    << " ", ".", "0", "1", "2", "3", "4", "5", "6", "7", "8", "9",
       "A", "B", "E", "X",
       "a", "b", "c", "e", "f", "i", "l", "m", "n", "o", "r", "s",
       "t", "u", "v", "x", "y", "²" >>

ord(c) == CHOOSE i \in 1..Len(CodePoints) : CodePoints[i] = c

\* str.__lt__: lexicographic order by code point
RECURSIVE StrLess(_, _)
StrLess(a, b) ==
    IF b = <<>> THEN FALSE
    ELSE IF a = <<>> THEN TRUE
    ELSE IF Head(a) = Head(b) THEN StrLess(Tail(a), Tail(b))
    ELSE ord(Head(a)) < ord(Head(b))

isspace(c) == c = " "

RECURSIVE lstrip(_)
lstrip(s) == IF s # <<>> /\ isspace(Head(s)) THEN lstrip(Tail(s)) ELSE s

RECURSIVE rstrip(_)
rstrip(s) ==
    IF s # <<>> /\ isspace(s[Len(s)]) THEN rstrip(SubSeq(s, 1, Len(s) - 1))
    ELSE s

\* str.strip()
strip(s) == rstrip(lstrip(s))

lowerChar(c) ==
    CASE c = "A" -> "a"
      [] c = "B" -> "b"
      [] c = "E" -> "e"
      [] c = "X" -> "x"
      [] OTHER -> c

\* str.lower()
lower(s) == [i \in 1..Len(s) |-> lowerChar(s[i])]

\* str.endswith(suffix)
endswith(s, suffix) ==
    /\ Len(suffix) <= Len(s)
    /\ SubSeq(s, Len(s) - Len(suffix) + 1, Len(s)) = suffix

\* characters for which str.isdigit() is true: the decimal digits and
\* digit characters such as SUPERSCRIPT TWO, which int() rejects
DecimalChars == {"0", "1", "2", "3", "4", "5", "6", "7", "8", "9"}
DigitChars == DecimalChars \cup {"²"}

\* str.isdigit(): non-empty and every character a digit character
isdigit(s) == s # <<>> /\ \A i \in 1..Len(s) : s[i] \in DigitChars

digitValue(c) ==
    CASE c = "0" -> 0
      [] c = "1" -> 1
      [] c = "2" -> 2
      [] c = "3" -> 3
      [] c = "4" -> 4
      [] c = "5" -> 5
      [] c = "6" -> 6
      [] c = "7" -> 7
      [] c = "8" -> 8
      [] c = "9" -> 9

RECURSIVE decimal(_, _)
decimal(s, acc) ==
    IF s = <<>> THEN acc ELSE decimal(Tail(s), 10 * acc + digitValue(Head(s)))

\* int(s) for a string that passed isdigit: the decimal value, or ValueError
\* (raised |-> TRUE) when a character is a digit but not a decimal one
int(s) ==
    IF \A i \in 1..Len(s) : s[i] \in DecimalChars
    THEN [raised |-> FALSE, value |-> decimal(s, 0)]
    ELSE [raised |-> TRUE, value |-> 0]

\* truth value of None or a string
truthy(v) == v # None /\ v # <<>>

\* dict.get(key): the value, None when the key is absent
get(record, key) ==
    IF \E i \in 1..Len(record) : record[i][1] = key
    THEN record[CHOOSE i \in 1..Len(record) : record[i][1] = key][2]
    ELSE None

\* d[key] = value on a dict: replaces in place, else appends
setitem(record, key, value) ==
    IF \E i \in 1..Len(record) : record[i][1] = key
    THEN [i \in 1..Len(record) |->
            IF record[i][1] = key THEN <<key, value>> ELSE record[i]]
    ELSE Append(record, <<key, value>>)

----------------------------------------------------------------------------
(* Files and errors *)

\* a file of the file system.  st: "missing" (no such file), "undecodable"
\* (bytes that are not UTF-8), "malformed" (not well-formed XML), "csv"
\* (text, as the rows of cells csv.reader splits it into at ';'), "xml" (a
\* well-formed document, as the child elements of its root)
File(st, rows, children) == [st |-> st, rows |-> rows, children |-> children]

\* no exception
NoErr == [type |-> "", msg |-> "", cause |-> ""]

\* an exception: its class, its message text and the text of the cause
\* formatted into the message
Err(type, msg, cause) == [type |-> type, msg |-> msg, cause |-> cause]

\* the outcome of a call: the exception raised (or NoErr), the value
\* returned and the paths handed to open() or ET.parse()
Outcome(e, data, paths) == [err |-> e, data |-> data, opened |-> paths]

----------------------------------------------------------------------------
(* csv.DictReader and FileProcessor._read_csv_file *)

\* the value DictReader stores under restkey (None) for a long row: the
\* list of the surplus cells.  Only its not being a string matters: the
\* reader fails on the None key before it looks at the value.
RestList == <<"list">>

\* dict(zip(fieldnames, row))
RECURSIVE zipdict(_, _, _)
zipdict(fieldnames, row, d) ==
    IF fieldnames = <<>> \/ row = <<>> THEN d
    ELSE zipdict(Tail(fieldnames), Tail(row),
                 setitem(d, Head(fieldnames), Head(row)))

\* for key in fieldnames[lr:]: d[key] = restval
RECURSIVE fillrest(_, _)
fillrest(keys, d) ==
    IF keys = <<>> THEN d ELSE fillrest(Tail(keys), setitem(d, Head(keys), None))

\* DictReader.__next__ for one non-blank row
DictRow(fieldnames, row) ==
    LET d  == zipdict(fieldnames, row, <<>>)
        lf == Len(fieldnames)
        lr == Len(row)
    IN  IF lf < lr THEN setitem(d, None, RestList)
        ELSE IF lf > lr THEN fillrest(SubSeq(fieldnames, lr + 1, lf), d)
        ELSE d

\* {k.strip(): v.strip() for k, v in row.items()} when every k and v is a str
RECURSIVE stripitems(_, _)
stripitems(items, d) ==
    IF items = <<>> THEN d
    ELSE stripitems(Tail(items),
                    setitem(d, strip(Head(items)[1]), strip(Head(items)[2])))

\* the dict comprehension of line 30: AttributeError when a key or a value
\* has no strip method
clean_row(row) ==
    IF \E i \in 1..Len(row) :
          row[i][1] = None \/ row[i][2] = None \/ row[i][2] = RestList
    THEN [raised |-> TRUE, value |-> <<>>]
    ELSE [raised |-> FALSE, value |-> stripitems(row, <<>>)]

\* the loop of lines 29-31 over the rows after the header; blank rows are
\* passed over by DictReader
RECURSIVE readrows(_, _, _)
readrows(fieldnames, rows, data) ==
    IF rows = <<>> THEN [raised |-> FALSE, value |-> data]
    ELSE IF Head(rows) = <<>> THEN readrows(fieldnames, Tail(rows), data)
    ELSE LET c == clean_row(DictRow(fieldnames, Head(rows)))
         IN  IF c.raised THEN [raised |-> TRUE, value |-> <<>>]
             ELSE readrows(fieldnames, Tail(rows), Append(data, c.value))

\* the reader with its list shared by all instances: the rows read are
\* appended to those of the FileProcessor made before
_read_csv_file_shared(path, f) ==
    IF f.st = "missing"
    THEN Outcome(Err("RuntimeError", "csv", "FileNotFoundError"), <<>>, {path})
    ELSE IF f.st # "csv"
    THEN Outcome(Err("RuntimeError", "csv", "UnicodeDecodeError"), <<>>, {path})
    ELSE IF f.rows = <<>> THEN Outcome(NoErr, processor.data, {path})
    ELSE LET r == readrows(Head(f.rows), Tail(f.rows), processor.data)
         IN  IF r.raised
             THEN Outcome(Err("RuntimeError", "csv", "AttributeError"), <<>>, {path})
             ELSE Outcome(NoErr, r.value, {path})

_read_csv_file(path, f) ==
    IF f.st = "missing"
    THEN Outcome(Err("RuntimeError", "csv", "FileNotFoundError"), <<>>, {path})
    ELSE IF f.st # "csv"
    THEN Outcome(Err("RuntimeError", "csv", "UnicodeDecodeError"), <<>>, {path})
    ELSE IF f.rows = <<>> THEN Outcome(NoErr, <<>>, {path})
    ELSE LET r == readrows(Head(f.rows), Tail(f.rows), <<>>)
         IN  IF r.raised
             THEN Outcome(Err("RuntimeError", "csv", "AttributeError"), <<>>, {path})
             ELSE Outcome(NoErr, r.value, {path})

----------------------------------------------------------------------------
(* FileProcessor._read_xml_file *)

\* root.findall('item') and the dict built from each item's attributes
RECURSIVE itemrecords(_)
itemrecords(children) ==
    IF children = <<>> THEN <<>>
    ELSE IF Head(children).tag = "item"
         THEN <<Head(children).attrib>> \o itemrecords(Tail(children))
         ELSE itemrecords(Tail(children))

\* the reader without the except clause: the cause leaves it as it is
_read_xml_file_unwrapped(path, f) ==
    IF f.st = "missing"
    THEN Outcome(Err("FileNotFoundError", "xml", ""), <<>>, {path})
    ELSE IF f.st # "xml"
    THEN Outcome(Err("ParseError", "xml", ""), <<>>, {path})
    ELSE Outcome(NoErr, itemrecords(f.children), {path})

_read_xml_file(path, f) ==
    IF f.st = "missing"
    THEN Outcome(Err("RuntimeError", "xml", "FileNotFoundError"), <<>>, {path})
    ELSE IF f.st # "xml"
    THEN Outcome(Err("RuntimeError", "xml", "ParseError"), <<>>, {path})
    ELSE Outcome(NoErr, itemrecords(f.children), {path})

----------------------------------------------------------------------------
(* FileProcessor.__init__ and FileProcessor.read_file *)

csv_ext == <<".", "c", "s", "v">>
xml_ext == <<".", "x", "m", "l">>

__init__(path) == [file_path |-> path, data |-> <<>>]

\* the dispatch with the CSV reader as the default branch
read_file_csv_default(self, f) ==
    IF endswith(self.file_path, xml_ext)
    THEN LET o == _read_xml_file(self.file_path, f)
         IN  IF o.err = NoErr THEN o ELSE Outcome(o.err, self.data, o.opened)
    ELSE LET o == _read_csv_file(self.file_path, f)
         IN  IF o.err = NoErr THEN o ELSE Outcome(o.err, self.data, o.opened)

\* the outcome of self.read_file(); its data is the new self.data, which an
\* exception leaves as it was
read_file(self, f) ==
    IF endswith(self.file_path, csv_ext)
    THEN LET o == _read_csv_file(self.file_path, f)
         IN  IF o.err = NoErr THEN o ELSE Outcome(o.err, self.data, o.opened)
    ELSE IF endswith(self.file_path, xml_ext)
    THEN LET o == _read_xml_file(self.file_path, f)
         IN  IF o.err = NoErr THEN o ELSE Outcome(o.err, self.data, o.opened)
    ELSE Outcome(Err("ValueError", "format", ""), self.data, {})

----------------------------------------------------------------------------
(* FileProcessor._find_duplicates *)

null == <<"n", "u", "l", "l">>

\* (k, v if v is not None else "null") for k, v in item.items()
pairs(item) ==
    [i \in 1..Len(item) |->
        <<item[i][1], IF item[i][2] = None THEN null ELSE item[i][2]>>]

\* tuple.__lt__ on two (k, v) pairs of strings
PairLess(p, q) ==
    \/ StrLess(p[1], q[1])
    \/ p[1] = q[1] /\ StrLess(p[2], q[2])

\* insertion of p into a sorted sequence, after the elements not above it
RECURSIVE insort(_, _)
insort(p, sq) ==
    IF sq = <<>> THEN <<p>>
    ELSE IF PairLess(p, Head(sq)) THEN <<p>> \o sq
    ELSE <<Head(sq)>> \o insort(p, Tail(sq))

\* sorted(...) of a sequence of pairs
RECURSIVE sorted(_)
sorted(sq) == IF sq = <<>> THEN <<>> ELSE insort(sq[Len(sq)], sorted(SubSeq(sq, 1, Len(sq) - 1)))

\* the Counter key without the sort: tuple(pairs)
signature_unsorted(item) == pairs(item)

\* the Counter key of one record: tuple(sorted(pairs))
signature(item) == sorted(pairs(item))

\* Counter(...)[key]
count(data, key) == Cardinality({i \in 1..Len(data) : signature(data[i]) = key})

\* the keys of the Counter from position i on, in first-seen order, whose
\* count exceeds 1, each turned back into a dict
RECURSIVE duplicatesFrom(_, _)
duplicatesFrom(data, i) ==
    IF i > Len(data) THEN <<>>
    ELSE LET key == signature(data[i])
         IN  IF /\ \A j \in 1..(i - 1) : signature(data[j]) # key
                /\ count(data, key) > 1
             THEN <<key>> \o duplicatesFrom(data, i + 1)
             ELSE duplicatesFrom(data, i + 1)

_find_duplicates(data) == duplicatesFrom(data, 1)

----------------------------------------------------------------------------
(* FileProcessor._count_floors_by_city *)

city_key   == <<"c", "i", "t", "y">>
floor_key  == <<"f", "l", "o", "o", "r">>
floors_key == <<"f", "l", "o", "o", "r", "s">>

\* the default_factory of the defaultdict: {1: 0, 2: 0, 3: 0, 4: 0, 5: 0}
default_factory == [b \in 1..5 |-> 0]

\* a or b
or(a, b) == IF truthy(a) THEN a ELSE b

\* the two fields tried in the other order
floors_of_swapped(record) == or(get(record, floors_key), get(record, floor_key))

\* record.get("floor") or record.get("floors")
floors_of(record) == or(get(record, floor_key), get(record, floors_key))

\* the loop body with the city entered into the summary before the test
count_record_preseed(record, city_summary) ==
    LET city   == get(record, city_key)
        floors == floors_of(record)
        entered == IF ~truthy(city) \/ city \in DOMAIN city_summary
                   THEN city_summary
                   ELSE city_summary @@ (city :> default_factory)
    IN  IF truthy(city) /\ truthy(floors) /\ isdigit(floors)
        THEN LET n == int(floors)
             IN  IF n.raised
                 THEN [err |-> Err("ValueError", "int", ""), value |-> entered]
                 ELSE IF n.value \notin DOMAIN entered[city]
                 THEN [err |-> Err("KeyError", "bucket", ""), value |-> entered]
                 ELSE [err |-> NoErr,
                       value |-> [entered EXCEPT ![city][n.value] = @ + 1]]
        ELSE [err |-> NoErr, value |-> entered]

\* one iteration of the loop of lines 68-72 on the summary so far: the
\* exception raised (or NoErr) and the summary after it.  The summary is a
\* function from the city keys present to their bucket dicts.
count_record(record, city_summary) ==
    LET city   == get(record, city_key)
        floors == floors_of(record)
    IN  IF truthy(city) /\ truthy(floors) /\ isdigit(floors)
        THEN LET entered == IF city \in DOMAIN city_summary THEN city_summary
                            ELSE city_summary @@ (city :> default_factory)
                 n == int(floors)
             IN  IF n.raised
                 THEN [err |-> Err("ValueError", "int", ""), value |-> entered]
                 ELSE IF n.value \notin DOMAIN entered[city]
                 THEN [err |-> Err("KeyError", "bucket", ""), value |-> entered]
                 ELSE [err |-> NoErr,
                       value |-> [entered EXCEPT ![city][n.value] = @ + 1]]
        ELSE [err |-> NoErr, value |-> city_summary]

\* the summary without any city
EmptySummary == [c \in {} |-> default_factory]

RECURSIVE countFrom(_, _, _)
countFrom(data, i, city_summary) ==
    IF i > Len(data) THEN [err |-> NoErr, value |-> city_summary]
    ELSE LET r == count_record(data[i], city_summary)
         IN  IF r.err # NoErr THEN r ELSE countFrom(data, i + 1, r.value)

_count_floors_by_city(data) == countFrom(data, 1, EmptySummary)

----------------------------------------------------------------------------
(* FileProcessor.process_data *)

\* nothing bound yet to duplicates and city_summary
NoResult == [duplicates |-> <<>>, city_summary |-> EmptySummary, bound |-> FALSE]

\* process_data looking for duplicates among the counted records only
process_data_filtered(data) ==
    LET counted(r) == /\ truthy(get(r, city_key))
                      /\ truthy(floors_of(r))
                      /\ isdigit(floors_of(r))
        duplicates == _find_duplicates(SelectSeq(data, counted))
        summary    == _count_floors_by_city(data)
    IN  IF summary.err # NoErr THEN [err |-> summary.err, value |-> NoResult]
        ELSE [err |-> NoErr,
              value |-> [duplicates |-> duplicates,
                         city_summary |-> summary.value, bound |-> TRUE]]

\* the exception raised (or NoErr) and the pair returned
process_data(data) ==
    LET duplicates == _find_duplicates(data)
        summary    == _count_floors_by_city(data)
    IN  IF summary.err # NoErr THEN [err |-> summary.err, value |-> NoResult]
        ELSE [err |-> NoErr,
              value |-> [duplicates |-> duplicates,
                         city_summary |-> summary.value, bound |-> TRUE]]

----------------------------------------------------------------------------
(* The files and input lines of the model *)

A_csv  == <<"a", ".", "c", "s", "v">>
B_xml  == <<"b", ".", "x", "m", "l">>
C_txt  == <<"c", ".", "t", "x", "t">>
M_xml  == <<"m", ".", "x", "m", "l">>
exit   == <<"e", "x", "i", "t">>

Paths == {A_csv, B_xml, C_txt, M_xml}

\* what the user types: paths, one with blanks around it, and the exit word
\* in another case with blanks around it
Lines == {A_csv, <<" ">> \o B_xml \o <<" ">>, C_txt, M_xml,
          <<" ", "E", "x", "i", "t", " ">>}

Item(attrib) == [tag |-> "item", attrib |-> attrib]

\* child elements of the root of an XML file
Children ==
    { Item(<< <<city_key, <<"A">>>>, <<floor_key, <<"1">>>> >>),
      Item(<< <<floor_key, <<"1">>>>, <<city_key, <<"A">>>> >>),
      Item(<< <<city_key, <<"A">>>>, <<floor_key, <<"3", "a">>>>,
              <<floors_key, <<"2">>>> >>),
      Item(<< <<city_key, <<"A">>>>, <<floor_key, <<"6">>>> >>),
      Item(<< <<city_key, <<"B">>>>, <<floor_key, <<"0", "3">>>> >>),
      Item(<< <<city_key, <<"B">>>>, <<floor_key, <<>>>>,
              <<floors_key, <<"2">>>> >>),
      Item(<< <<city_key, <<"B">>>>, <<floor_key, <<"²">>>> >>),
      Item(<< <<floors_key, <<"5">>>> >>) }

\* header rows of a CSV file
Headers == { <<city_key, floor_key>>, << <<" ">> \o city_key \o <<" ">>, floors_key >> }

\* data rows of a CSV file: regular, with blanks to strip, with an empty
\* city, with floor 0, short, long and blank
Rows ==
    { << <<"A">>, <<"1">> >>,
      << <<"A">>, <<" ", "1", " ">> >>,
      << <<>>, <<"1">> >>,
      << <<"B">>, <<"0">> >>,
      << <<"A">> >>,
      << <<"A">>, <<"1">>, <<"x">> >>,
      <<>> }

\* the sequences over S of length at most n
SeqUpTo(S, n) == UNION {[1..k -> S] : k \in 0..n}

Missing == File("missing", <<>>, <<>>)

XmlFiles ==
    {File("malformed", <<>>, <<>>)}
    \cup {File("xml", <<>>, ch) : ch \in SeqUpTo(Children, MaxItems)}

CsvFiles ==
    {File("undecodable", <<>>, <<>>), File("csv", <<>>, <<>>)}
    \cup {File("csv", <<h>> \o rs, <<>>) : h \in Headers, rs \in SeqUpTo(Rows, MaxRows)}

\* header city;floor with the rows A;1 and A;1
DefaultCsv ==
    File("csv", << <<city_key, floor_key>>, << <<"A">>, <<"1">> >>,
                   << <<"A">>, <<"1">> >> >>, <<>>)

\* <root><item city="X" floor="3"/><note city="X" floor="3"/><item/>
\* <item city="X" floor="3"/></root>
DefaultXml ==
    File("xml", <<>>,
         << Item(<< <<city_key, <<"X">>>>, <<floor_key, <<"3">>>> >>),
            [tag |-> "note",
             attrib |-> << <<city_key, <<"X">>>>, <<floor_key, <<"3">>>> >>],
            Item(<<>>),
            Item(<< <<city_key, <<"X">>>>, <<floor_key, <<"3">>>> >>) >>)

FileSystem(c, x) ==
    [p \in Paths |->
        IF p = A_csv THEN c
        ELSE IF p = B_xml THEN x
        ELSE IF p = C_txt THEN DefaultCsv
        ELSE Missing]

FileSystems ==
    {FileSystem(c, DefaultXml) : c \in CsvFiles}
    \cup {FileSystem(DefaultCsv, x) : x \in XmlFiles}

\* the file a path names
lookup(fs, path) == IF path \in DOMAIN fs THEN fs[path] ELSE Missing

----------------------------------------------------------------------------
(* Application.run *)

\* the exception classes of the model; all derive from Exception
ExceptionClasses ==
    {"ValueError", "RuntimeError", "KeyError", "AttributeError",
     "FileNotFoundError", "UnicodeDecodeError", "ParseError"}

\* except (ValueError, RuntimeError) as e
catches_narrow(type) == type \in {"ValueError", "RuntimeError"}

\* except Exception as e
catches(type) == type \in ExceptionClasses

\* no path typed yet
NoPath == None

Init ==
    /\ files \in FileSystems
    /\ pc = "input"
    /\ file_path = NoPath
    /\ processor = [file_path |-> NoPath, data |-> <<>>]
    /\ result = NoResult
    /\ err = NoErr
    /\ opened = {}
    /\ shown = [p \in Paths |-> <<>>]
    /\ failedSince = {}

\* an exception e leaves the try block: the handler prints it and the loop
\* goes on, or nothing catches it and run ends with it
Raise(e) ==
    /\ err' = e
    /\ pc' = IF catches(e.type) THEN "input" ELSE "crashed"
    /\ failedSince' = failedSince \cup {p \in Paths : shown[p] # <<>>}

\* lines 102-106: read a line; leave the loop on the exit word
Input ==
    /\ pc = "input"
    /\ \E l \in Lines :
         /\ file_path' = strip(l)
         /\ IF lower(strip(l)) = exit
            THEN /\ pc' = "done"
                 /\ UNCHANGED <<err, opened>>
            ELSE /\ pc' = "try"
                 /\ err' = NoErr
                 /\ opened' = {}
    /\ UNCHANGED <<files, processor, result, shown, failedSince>>

\* lines 109-112: make the FileProcessor and read the file
ReadFile ==
    /\ pc = "try"
    /\ LET self == __init__(file_path)
           o    == read_file(self, lookup(files, file_path))
       IN  /\ processor' = [self EXCEPT !.data = o.data]
           /\ opened' = o.opened
           /\ IF o.err = NoErr
              THEN pc' = "process" /\ UNCHANGED <<err, failedSince>>
              ELSE Raise(o.err)
    /\ UNCHANGED <<files, file_path, result, shown>>

\* line 113: duplicates, city_summary = processor.process_data()
ProcessData ==
    /\ pc = "process"
    /\ LET r == process_data(processor.data)
       IN  IF r.err = NoErr
           THEN /\ result' = r.value
                /\ pc' = "display"
                /\ UNCHANGED <<err, failedSince>>
           ELSE /\ Raise(r.err)
                /\ UNCHANGED result
    /\ UNCHANGED <<files, file_path, processor, opened, shown>>

\* lines 115-116: display_statistics(duplicates, city_summary, ...)
Display ==
    /\ pc = "display"
    /\ shown' = [shown EXCEPT ![file_path] =
                    IF @ = <<>> THEN <<result>> ELSE @]
    /\ pc' = "input"
    /\ UNCHANGED <<files, file_path, processor, result, err, opened, failedSince>>

Next == Input \/ ReadFile \/ ProcessData \/ Display

Spec == Init /\ [][Next]_vars

----------------------------------------------------------------------------
(* Notions the properties are stated in *)

\* the content of a record: its set of field/value pairs
content(r) == {r[i] : i \in 1..Len(r)}

\* how often a content occurs in a dataset
occurrences(data, S) == Cardinality({i \in 1..Len(data) : content(data[i]) = S})

\* the value of field k of a record, None when the record has no field k
field(r, k) ==
    IF \E pr \in content(r) : pr[1] = k
    THEN (CHOOSE pr \in content(r) : pr[1] = k)[2]
    ELSE None

\* the floor value of a record: that of field floor when present and
\* non-empty, otherwise that of field floors
FloorValue(r) ==
    IF field(r, floor_key) \notin {None, <<>>} THEN field(r, floor_key)
    ELSE field(r, floors_key)

\* a non-empty string of the decimal digits 0-9
Numerals == {"0", "1", "2", "3", "4", "5", "6", "7", "8", "9"}
IsNumeral(s) == s \notin {None, <<>>} /\ \A i \in 1..Len(s) : s[i] \in Numerals

\* the number a string of decimal digits denotes
RECURSIVE NumeralValue(_)
NumeralValue(s) ==
    IF s = <<>> THEN 0
    ELSE 10 * NumeralValue(SubSeq(s, 1, Len(s) - 1))
         + (CHOOSE d \in 0..9 : ToString(d) = s[Len(s)])

\* the records of a dataset the aggregation counts for city c and bucket f
Counted(data, c, f) ==
    {i \in 1..Len(data) :
        /\ field(data[i], city_key) = c
        /\ IsNumeral(FloorValue(data[i]))
        /\ NumeralValue(FloorValue(data[i])) = f}

\* the records of a dataset with a non-empty city and a numeral floor value
Qualifying(data) ==
    {i \in 1..Len(data) :
        /\ field(data[i], city_key) \notin {None, <<>>}
        /\ IsNumeral(FloorValue(data[i]))}

RECURSIVE SumOver(_, _)
SumOver(fn, S) ==
    IF S = {} THEN 0
    ELSE LET x == CHOOSE x \in S : TRUE IN fn[x] + SumOver(fn, S \ {x})

\* the sum of the counts of one city of a summary
CityTotal(summary, c) == SumOver(summary[c], DOMAIN summary[c])

\* the sum of all counts of a summary
Total(summary) ==
    SumOver([c \in DOMAIN summary |-> CityTotal(summary, c)], DOMAIN summary)

----------------------------------------------------------------------------
(* Duplicate detection *)

\* dups holds one mapping for each content occurring twice or more in data
\* and none for any other content
DuplicatesExact(data, dups) ==
    /\ \A i \in 1..Len(data) :
          Cardinality({j \in 1..Len(dups) : content(dups[j]) = content(data[i])})
            = IF occurrences(data, content(data[i])) >= 2 THEN 1 ELSE 0
    /\ \A j \in 1..Len(dups) : occurrences(data, content(dups[j])) >= 2
    /\ data = <<>> => dups = <<>>

\* C1: for every dataset a FileProcessor holds, _find_duplicates returns
\* exactly one mapping per distinct record content (set of field/value
\* pairs, whatever the field order) that occurs two or more times, none for
\* a content occurring once, and the empty list for the empty dataset.
C1_OneGroupPerDuplicatedContent ==
    /\ pc = "process" =>
          DuplicatesExact(processor.data, _find_duplicates(processor.data))
    /\ pc = "display" => DuplicatesExact(processor.data, result.duplicates)

\* three records were processed: two of one content in different field
\* orders and a third of another content; one group was returned
C1_Witness ==
    /\ pc = "display"
    /\ Len(processor.data) = 3
    /\ \E i, j \in 1..3 :
          /\ processor.data[i] # processor.data[j]
          /\ content(processor.data[i]) = content(processor.data[j])
    /\ Len(result.duplicates) = 1

----------------------------------------------------------------------------
(* City summary *)

DigitString(f) == <<ToString(f)>>

\* C3 as stated: each city key maps to exactly the buckets 1-5, the count of
\* city c and bucket f is the number of records with city c whose floor
\* value is the digit string of f, and every city key has a qualifying record.
C3_CountsOfDigitStrings ==
    pc = "display" =>
        \A c \in DOMAIN result.city_summary :
            /\ DOMAIN result.city_summary[c] = 1..5
            /\ \A f \in 1..5 :
                  result.city_summary[c][f] =
                    Cardinality({i \in 1..Len(processor.data) :
                        /\ field(processor.data[i], city_key) = c
                        /\ FloorValue(processor.data[i]) = DigitString(f)})
            /\ \E i \in Qualifying(processor.data) :
                  field(processor.data[i], city_key) = c

\* C3 amended: each city key maps to exactly the buckets 1-5, the count of
\* city c and bucket f is the number of records with city c whose floor
\* value is a string of decimal digits denoting f (leading zeros allowed),
\* and every city key has a qualifying record.
C3_CountsOfParsedValues ==
    pc = "display" =>
        \A c \in DOMAIN result.city_summary :
            /\ DOMAIN result.city_summary[c] = 1..5
            /\ \A f \in 1..5 :
                  result.city_summary[c][f] =
                    Cardinality(Counted(processor.data, c, f))
            /\ \E i \in Qualifying(processor.data) :
                  field(processor.data[i], city_key) = c

\* a summary was returned for a dataset with a record of floor "03", counted
\* under bucket 3, and a record without a city, which made no key
C3_Witness ==
    /\ pc = "display"
    /\ \E i \in 1..Len(processor.data) :
          /\ FloorValue(processor.data[i]) = <<"0", "3">>
          /\ result.city_summary[field(processor.data[i], city_key)][3] >= 1
    /\ \E i \in 1..Len(processor.data) :
          field(processor.data[i], city_key) = None

----------------------------------------------------------------------------
(* Independence of the two analyses *)

\* the records whose floor value is present but not a digit string
NonDigit(data) ==
    {i \in 1..Len(data) :
        FloorValue(data[i]) \notin {None, <<>>} /\ ~IsNumeral(FloorValue(data[i]))}

\* C9: a record whose floor value is not a digit string adds to no count of
\* the summary (the counts add up to the number of qualifying records), yet
\* it is compared in duplicate detection: when its content occurs twice or
\* more, the duplicates hold exactly one group of that content.
C9_NonDigitFloorStillDeduplicated ==
    pc = "display" =>
        /\ Total(result.city_summary) = Cardinality(Qualifying(processor.data))
        /\ \A i \in NonDigit(processor.data) :
              occurrences(processor.data, content(processor.data[i])) >= 2
              => Cardinality({j \in 1..Len(result.duplicates) :
                     content(result.duplicates[j]) = content(processor.data[i])}) = 1

\* two identical records of floor "3a" were processed: one group, no count
C9_Witness ==
    /\ pc = "display"
    /\ \E i, j \in NonDigit(processor.data) :
          /\ i # j
          /\ processor.data[i] = processor.data[j]
          /\ get(processor.data[i], floor_key) = <<"3", "a">>
    /\ Len(result.duplicates) = 1
    /\ Total(result.city_summary) = 0

----------------------------------------------------------------------------
(* The floor field and its fallback *)

\* C10: the floor value is taken from field floor when that is present and
\* non-empty, and from field floors only otherwise; so a record whose floor
\* is present, non-empty and not a digit string is counted nowhere, even
\* with a digit string in floors: the counts of each city add up to the
\* number of its records whose floor value, so chosen, is a digit string.
C10_FloorBeforeFloors ==
    /\ \A i \in 1..Len(processor.data) :
          floors_of(processor.data[i]) = FloorValue(processor.data[i])
    /\ pc = "display" =>
          \A c \in DOMAIN result.city_summary :
              CityTotal(result.city_summary, c) =
                Cardinality({i \in Qualifying(processor.data) :
                                field(processor.data[i], city_key) = c})

\* a summary was returned for a record with floor "3a" and floors "2", which
\* was skipped, and a record with an empty floor and floors "2", counted
\* under bucket 2
C10_Witness ==
    /\ pc = "display"
    /\ \E i \in 1..Len(processor.data) :
          /\ get(processor.data[i], floor_key) = <<"3", "a">>
          /\ get(processor.data[i], floors_key) = <<"2">>
          /\ field(processor.data[i], city_key) \notin DOMAIN result.city_summary
    /\ \E i \in 1..Len(processor.data) :
          /\ get(processor.data[i], floor_key) = <<>>
          /\ get(processor.data[i], floors_key) = <<"2">>
          /\ result.city_summary[field(processor.data[i], city_key)][2] = 1

----------------------------------------------------------------------------
(* Skipped records *)

\* C2: a record that fails the aggregation conditions, a digit floor value
\* outside 1-5 included, is skipped: whenever the file of a request was
\* read, process_data returns without raising, and the counts add up to the
\* number of qualifying records whose floor value lies in 1-5.
C2_FailingRecordsAreSkipped ==
    (pc = "input" /\ opened # {} /\ err.msg \notin {"csv", "xml"}) =>
        /\ err = NoErr
        /\ Total(result.city_summary) =
             Cardinality({i \in Qualifying(processor.data) :
                 NumeralValue(FloorValue(processor.data[i])) \in 1..5})

----------------------------------------------------------------------------
(* Errors of read_file *)

Unsupported(path) == ~endswith(path, csv_ext) /\ ~endswith(path, xml_ext)

\* C4: read_file on a path that ends neither in .csv nor in .xml fails with
\* the unsupported-format error, opens no file, leaves the dataset of the
\* processor empty and returns no duplicates or summary: the results bound
\* and displayed before stay as they were.
C4_UnsupportedFailsBeforeAnyRead ==
    [][ (pc = "try" /\ Unsupported(file_path)) =>
            /\ err' = Err("ValueError", "format", "")
            /\ opened' = {}
            /\ processor'.data = <<>>
            /\ result' = result
            /\ shown' = shown
            /\ pc' = "input" ]_vars

\* after a file was processed, c.txt was requested and refused
C4_Witness ==
    /\ pc = "input"
    /\ file_path = C_txt
    /\ err.msg = "format"
    /\ processor = [file_path |-> C_txt, data |-> <<>>]
    /\ result.bound
    /\ opened = {}

\* the situation a request for a path is in
Situation(path) ==
    IF Unsupported(path) THEN "unsupported"
    ELSE IF lookup(files, path).st \in {"missing", "undecodable"} THEN "io"
    ELSE IF lookup(files, path).st = "malformed" THEN "parse"
    ELSE "readable"

HasRaggedRow(f) ==
    /\ f.st = "csv"
    /\ f.rows # <<>>
    /\ \E i \in 2..Len(f.rows) :
          f.rows[i] # <<>> /\ Len(f.rows[i]) # Len(f.rows[1])

\* C6: reading a CSV file with a ragged data row succeeds: after a request
\* for such a file no error was raised.
C6_RaggedRowsAreRead ==
    (pc = "input" /\ endswith(file_path, csv_ext)
       /\ HasRaggedRow(lookup(files, file_path)))
    => err = NoErr

----------------------------------------------------------------------------
(* The loop of Application.run *)

\* C7: the result of a request depends on the content of its file only: the
\* statistics displayed for a path are those displayed for it the first
\* time, whatever was requested in between.
C7_SameFileSameOutput ==
    (pc = "display" /\ shown[file_path] # <<>>) => result = shown[file_path][1]

\* a path was displayed, then a request failed and another path was
\* displayed, and now the first path is about to be displayed again
C7_Witness ==
    /\ pc = "display"
    /\ shown[file_path] # <<>>
    /\ file_path \in failedSince
    /\ \E q \in Paths \ {file_path} : shown[q] # <<>>

\* C8: a failure raised while reading or processing a requested file is
\* caught for that request: the loop is waiting for input again; and the
\* loop ends only on an input that is exit after trimming and lowering.
C8_FailuresAreCaught ==
    [][ /\ (pc \in {"try", "process"} /\ err' # NoErr) => pc' = "input"
        /\ pc' # "crashed"
        /\ (pc' = "done" /\ pc # "done") =>
              pc = "input" /\ lower(file_path') = exit ]_vars

\* an error of the aggregation was caught and the loop waits for input
C8_Witness ==
    /\ pc = "input"
    /\ err.type = "KeyError"
    /\ processor.data # <<>>

====
